---------------------------- MODULE Spec2Model ----------------------------
(***************************************************************************)
(* Model of package users (src/users/users.go): User.Validate, isEmail,    *)
(* the three package-level regular expressions, and the UserRepository     *)
(* interface.                                                              *)
(*                                                                         *)
(* A Go string is modelled as a sequence of Unicode code points (naturals).*)
(* len(s) of Go is the number of bytes of the UTF-8 encoding, so it is     *)
(* computed from the code points and is not Len of the sequence.           *)
(***************************************************************************)
EXTENDS Integers, Sequences, FiniteSets, TLC

(***************************************************************************)
(* Characters and strings                                                  *)
(***************************************************************************)

\* Code points of the characters the inputs of the model are written with.
\* "U+00E9" is LATIN SMALL LETTER E WITH ACUTE, two bytes in UTF-8.
Ord ==
    ("a" :> 97) @@ ("b" :> 98) @@ ("c" :> 99) @@ ("e" :> 101) @@ ("i" :> 105)
    @@ ("l" :> 108) @@ ("m" :> 109) @@ ("n" :> 110) @@ ("o" :> 111)
    @@ ("p" :> 112) @@ ("r" :> 114) @@ ("s" :> 115) @@ ("u" :> 117)
    @@ ("x" :> 120) @@ ("Z" :> 90) @@ ("7" :> 55) @@ ("@" :> 64) @@ ("." :> 46)
    @@ ("-" :> 45) @@ ("+" :> 43) @@ ("!" :> 33) @@ (" " :> 32) @@ ("(" :> 40)
    @@ ("," :> 44) @@ ("quote" :> 34) @@ ("tab" :> 9) @@ ("U+00E9" :> 233)

\* The string written with the characters q[1], q[2], ...
Str(q) == [i \in 1..Len(q) |-> Ord[q[i]]]

\* strings.Repeat of a one-character string.
Rep(c, n) == [i \in 1..n |-> Ord[c]]

\* Go's built-in len on a string: the byte length of its UTF-8 encoding.
len(s) ==
    Len(s) + Cardinality({i \in 1..Len(s) : s[i] >= 128})
           + Cardinality({i \in 1..Len(s) : s[i] >= 2048})
           + Cardinality({i \in 1..Len(s) : s[i] >= 65536})

\* utf8.RuneCountInString: the number of characters.
RuneCount(s) == Len(s)

atSeparator == Ord["@"]
dotSeparator == Ord["."]

\* The positions of sep in s, and the k-th of them in increasing order
\* (0 for k = 0, Len(s) + 1 past the last).
SepPositions(s, sep) == {i \in 1..Len(s) : s[i] = sep}

SepAt(s, sep, k) ==
    IF k = 0 THEN 0
    ELSE IF k > Cardinality(SepPositions(s, sep)) THEN Len(s) + 1
    ELSE CHOOSE i \in SepPositions(s, sep) :
            Cardinality({j \in SepPositions(s, sep) : j <= i}) = k

\* strings.Split(s, sep) for a one-character separator: n separators give
\* n + 1 parts, empty parts included.
Split(s, sep) ==
    [k \in 1..(Cardinality(SepPositions(s, sep)) + 1) |->
        SubSeq(s, SepAt(s, sep, k - 1) + 1, SepAt(s, sep, k) - 1)]

\* strings.Join(parts, ".")
RECURSIVE JoinDots(_)
JoinDots(parts) ==
    IF Len(parts) = 0 THEN <<>>
    ELSE IF Len(parts) = 1 THEN parts[1]
    ELSE parts[1] \o <<dotSeparator>> \o JoinDots(Tail(parts))

(***************************************************************************)
(* The regular expressions of lines 25-29.  A compiled *regexp.Regexp is   *)
(* represented by its pattern; MatchString interprets the pattern.         *)
(***************************************************************************)

\* line 26: ^[a-zA-Z0-9 and the symbols of UserSymbols]+$
UserPattern == "userRegexp pattern"
\* line 27: ^[^\s]+\.[^\s]+$
HostPattern == "hostRegexp pattern"
\* line 28: (^[.]{1})|([.]{1}$)|([.]{2,})
UserDotPattern == "userDotRegexp pattern"

IsLetter(c) == (c >= 65 /\ c <= 90) \/ (c >= 97 /\ c <= 122)
IsDigit(c) == c >= 48 /\ c <= 57


\* The symbols of line 26 without "+".
UserSymbolsNoPlus == {33, 35, 36, 37, 38, 39, 42, 47, 61, 63, 94, 95, 96,
                      123, 124, 125, 126, 46, 45}

\* ! # $ % & ' * + / = ? ^ _ (backquote) { | } ~ . -
UserSymbols == {33, 35, 36, 37, 38, 39, 42, 43, 47, 61, 63, 94, 95, 96,
                123, 124, 125, 126, 46, 45}

\* The character class of userRegexp: letters, digits, UserSymbols.
UserClass(c) == IsLetter(c) \/ IsDigit(c) \/ c \in UserSymbols

\* The class \s of Go's regexp (RE2): [\t\n\f\r ]
SpaceClass(c) == c \in {9, 10, 12, 13, 32}


\* Line 26 without its anchors: a search for one character of the class.
MatchUserUnanchored(s) == \E i \in 1..Len(s) : UserClass(s[i])

MatchUser(s) == Len(s) >= 1 /\ \A i \in 1..Len(s) : UserClass(s[i])

\* ^[^\s]+\.[^\s]+$ : no character of \s, and a dot that is neither the
\* first nor the last character ([^\s] matches a dot too).
MatchHost(s) ==
    /\ \A i \in 1..Len(s) : ~SpaceClass(s[i])
    /\ \E i \in 2..(Len(s) - 1) : s[i] = dotSeparator


\* Line 28 without its second alternative, the "." at the end.
MatchUserDotNoTrailing(s) ==
    /\ Len(s) >= 1
    /\ \/ s[1] = dotSeparator
       \/ \E i \in 1..(Len(s) - 1) : s[i] = dotSeparator /\ s[i + 1] = dotSeparator

\* (^[.]{1})|([.]{1}$)|([.]{2,}) : unanchored search; $ is the end of text.
MatchUserDot(s) ==
    /\ Len(s) >= 1
    /\ \/ s[1] = dotSeparator
       \/ s[Len(s)] = dotSeparator
       \/ \E i \in 1..(Len(s) - 1) : s[i] = dotSeparator /\ s[i + 1] = dotSeparator

\* (*Regexp).MatchString
MatchString(re, s) ==
    CASE re = UserPattern -> MatchUser(s)
      [] re = HostPattern -> MatchHost(s)
      [] re = UserDotPattern -> MatchUserDot(s)
      [] OTHER -> FALSE

(***************************************************************************)
(* idna.ToASCII (golang.org/x/net/idna, the Punycode profile): the         *)
(* external conversion isEmail calls on lines 96 and 100.  The profile     *)
(* maps and validates nothing: it splits its argument into labels at the   *)
(* dots, decodes every label that carries the ACE prefix xn--, and         *)
(* encodes every label that is not ASCII (RFC 3492).                       *)
(***************************************************************************)

base == 36
tmin == 1
tmax == 26
skew == 38
damp == 700
initialBias == 72
initialN == 128
MaxInt32 == 2147483647
MaxRune == 1114111

acePrefix == Str(<<"x", "n", "-", "-">>)

RECURSIVE adaptLoop(_, _)
adaptLoop(delta, k) ==
    IF delta > ((base - tmin) * tmax) \div 2
    THEN adaptLoop(delta \div (base - tmin), k + base)
    ELSE k + (((base - tmin + 1) * delta) \div (delta + skew))

\* adapt: the bias adaptation function of RFC 3492, section 6.1.
adapt(delta, numPoints, firstTime) ==
    LET d == IF firstTime THEN delta \div damp ELSE delta \div 2
    IN adaptLoop(d + (d \div numPoints), 0)

\* The threshold t of digit position k under bias.
threshold(k, bias) ==
    IF k <= bias THEN tmin
    ELSE IF k >= bias + tmax THEN tmax
    ELSE k - bias

\* encodeDigit: 0..25 to a..z, 26..35 to 0..9.
encodeDigit(d) == IF d < 26 THEN 97 + d ELSE 48 + (d - 26)

\* decodeDigit: the digit value of a byte, or -1 when it is no digit.
decodeDigit(c) ==
    IF c >= 48 /\ c <= 57 THEN c - 48 + 26
    ELSE IF c >= 65 /\ c <= 90 THEN c - 65
    ELSE IF c >= 97 /\ c <= 122 THEN c - 97
    ELSE -1

\* The generalized variable-length integer for q, appended to out.
RECURSIVE encodeInt(_, _, _, _)
encodeInt(q, k, bias, out) ==
    LET t == threshold(k, bias)
    IN IF q < t THEN Append(out, encodeDigit(q))
       ELSE encodeInt((q - t) \div (base - t), k + base, bias,
                      Append(out, encodeDigit(t + ((q - t) % (base - t)))))

\* The body of the inner loop of encode for the code point s[idx], with
\* st.n the code point being inserted.
encodeStep(s, b, idx, st) ==
    IF st.err THEN st
    ELSE IF s[idx] < st.n
    THEN [st EXCEPT !.delta = @ + 1, !.err = (st.delta + 1 > MaxInt32)]
    ELSE IF s[idx] > st.n THEN st
    ELSE [st EXCEPT !.out = encodeInt(st.delta, base, st.bias, st.out),
                    !.bias = adapt(st.delta, st.h + 1, st.h = b),
                    !.delta = 0,
                    !.h = @ + 1,
                    !.remaining = @ - 1]

\* The inner loop of encode, for _, r := range s, over the positions
\* lo..hi in increasing order (evaluated by halves).
RECURSIVE encodePass(_, _, _, _, _)
encodePass(s, b, lo, hi, st) ==
    IF lo > hi THEN st
    ELSE IF lo = hi THEN encodeStep(s, b, lo, st)
    ELSE LET mid == (lo + hi) \div 2
             left == encodePass(s, b, lo, mid, st)
         IN IF left.err THEN left ELSE encodePass(s, b, mid + 1, hi, left)

\* The outer loop of encode: the next larger code point, then one pass.
RECURSIVE encodeLoop(_, _, _)
encodeLoop(s, b, st) ==
    IF st.remaining = 0 \/ st.err THEN st
    ELSE LET larger == {s[i] : i \in {j \in 1..Len(s) : s[j] >= st.n}}
             m == CHOOSE x \in larger : \A y \in larger : x <= y
             delta == st.delta + (m - st.n) * (st.h + 1)
         IN IF delta > MaxInt32 THEN [st EXCEPT !.err = TRUE]
            ELSE LET after == encodePass(s, b, 1, Len(s),
                                         [st EXCEPT !.delta = delta, !.n = m])
                 IN encodeLoop(s, b, [after EXCEPT !.delta = @ + 1, !.n = @ + 1])

\* encode(acePrefix, s): [out, err].
encode(prefix, s) ==
    LET basic == SelectSeq(s, LAMBDA c : c < 128)
        b == Len(basic)
        st == encodeLoop(s, b,
                 [out |-> prefix \o basic \o (IF b > 0 THEN <<Ord["-"]>> ELSE <<>>),
                  delta |-> 0, n |-> initialN, bias |-> initialBias,
                  h |-> b, remaining |-> Len(s) - b, err |-> FALSE])
    IN [out |-> IF st.err THEN <<>> ELSE st.out, err |-> st.err]

\* One generalized variable-length integer read from enc at pos:
\* [i, pos, err].
RECURSIVE decodeInt(_, _, _, _, _, _)
decodeInt(enc, pos, i, w, k, bias) ==
    IF pos > Len(enc) THEN [i |-> i, pos |-> pos, err |-> TRUE]
    ELSE LET digit == decodeDigit(enc[pos])
             t == threshold(k, bias)
             i2 == i + digit * w
         IN IF digit < 0 \/ i2 > MaxInt32
            THEN [i |-> i, pos |-> pos, err |-> TRUE]
            ELSE IF digit < t THEN [i |-> i2, pos |-> pos + 1, err |-> FALSE]
            ELSE IF w * (base - t) > MaxInt32
            THEN [i |-> i2, pos |-> pos, err |-> TRUE]
            ELSE decodeInt(enc, pos + 1, i2, w * (base - t), k + base, bias)

\* string(rune) of a code point: a surrogate becomes U+FFFD.
runeString(n) == IF n >= 55296 /\ n <= 57343 THEN 65533 ELSE n

\* The main loop of decode.
RECURSIVE decodeLoop(_, _, _, _, _, _)
decodeLoop(enc, pos, i, n, bias, output) ==
    IF pos > Len(enc) THEN [out |-> output, err |-> FALSE]
    ELSE LET r == decodeInt(enc, pos, i, 1, base, bias)
             x == Len(output) + 1
             n2 == n + (r.i \div x)
             at == r.i % x
         IN IF r.err \/ Len(output) >= 1024 \/ n2 > MaxRune
            THEN [out |-> <<>>, err |-> TRUE]
            ELSE decodeLoop(enc, r.pos, at + 1, n2,
                            adapt(r.i - i, x, i = 0),
                            SubSeq(output, 1, at) \o <<runeString(n2)>>
                                \o SubSeq(output, at + 1, Len(output)))

\* decode(encoded): the label an ACE label stands for, [out, err].
decode(encoded) ==
    LET hyphens == SepPositions(encoded, Ord["-"])
        last == IF hyphens = {} THEN 0
                ELSE CHOOSE i \in hyphens : \A j \in hyphens : j <= i
    IN IF encoded = <<>> THEN [out |-> <<>>, err |-> FALSE]
       ELSE IF last = 1 THEN [out |-> <<>>, err |-> TRUE]
       ELSE IF last = Len(encoded)
       THEN [out |-> SubSeq(encoded, 1, Len(encoded) - 1), err |-> FALSE]
       ELSE decodeLoop(encoded, last + 1, 0, initialN, initialBias,
                       SubSeq(encoded, 1, last - 1))

HasPrefix(s, prefix) ==
    Len(s) >= Len(prefix) /\ SubSeq(s, 1, Len(prefix)) = prefix

ascii(s) == \A i \in 1..Len(s) : s[i] < 128

\* What ToASCII makes of one label: [out, err].  A label that fails to
\* decode is kept as it is, with the error.
labelToASCII(label) ==
    LET dec == IF HasPrefix(label, acePrefix)
               THEN decode(SubSeq(label, Len(acePrefix) + 1, Len(label)))
               ELSE [out |-> label, err |-> FALSE]
        u == IF dec.err THEN label ELSE dec.out
        enc == IF ascii(u) THEN [out |-> u, err |-> FALSE]
               ELSE encode(acePrefix, u)
    IN [out |-> enc.out, err |-> dec.err \/ enc.err]

\* idna.ToASCII(s): [out, err]; err stands for a non-nil error.
ToASCII(s) ==
    LET labels == Split(s, dotSeparator)
        conv == [k \in 1..Len(labels) |-> labelToASCII(labels[k])]
    IN [out |-> JoinDots([k \in 1..Len(labels) |-> conv[k].out]),
        err |-> \E k \in 1..Len(labels) : conv[k].err]

(***************************************************************************)
(* isEmail and User.Validate                                               *)
(***************************************************************************)

minPassLen == 8
maxLocalLen == 64
maxDomainLen == 255
maxTLDLen == 24

ErrMalformedEntity == "ErrMalformedEntity"
nil == "nil"


\* Line 74 with < 2 for != 2: what follows a second "@" is ignored.
atSplitAtLeastTwo(es) == Len(es) >= 2

\* line 74: strings.Split(email, "@") gave exactly two parts.
atSplitOk(es) == Len(es) = 2


\* Line 79 with >= for >: a local part of exactly maxLocalLen bytes is
\* refused.
localLenExclusive(local) == ~(local = <<>> \/ len(local) >= maxLocalLen)

\* line 79: the local part is not empty and at most maxLocalLen bytes.
localLenOk(local) == ~(local = <<>> \/ len(local) > maxLocalLen)


\* Line 84 with < 2 for != 2: hosts of three and more labels pass.
hostSplitAtLeastTwo(hs) == Len(hs) >= 2

\* line 84: strings.Split(host, ".") gave exactly two parts.
hostSplitOk(hs) == Len(hs) = 2


\* Line 89 with the length in characters for the length in bytes.
domainLenInRunes(domain) == ~(domain = <<>> \/ RuneCount(domain) > maxDomainLen)

\* line 89: the domain is not empty and at most maxDomainLen bytes.
domainLenOk(domain) == ~(domain = <<>> \/ len(domain) > maxDomainLen)

\* line 92: the top-level domain is not empty and at most maxTLDLen bytes.
extLenOk(ext) == ~(ext = <<>> \/ len(ext) > maxTLDLen)

\* line 105: the three expressions on the converted parts.
matchOk(punyLocal, punyHost, userRe, hostRe, userDotRe) ==
    ~(\/ MatchString(userDotRe, punyLocal)
      \/ ~MatchString(userRe, punyLocal)
      \/ ~MatchString(hostRe, punyHost))


\* Line 45 with <= for <: a password of exactly minPassLen bytes is refused.
passwordOkInclusive(password) == ~(len(password) <= minPassLen)

\* line 45: the password is at least minPassLen bytes.
passwordOk(password) == ~(len(password) < minPassLen)

\* isEmail (lines 68-110) run from its first to its last line, with the
\* three compiled expressions it reads given explicitly.
isEmailWith(email, userRe, hostRe, userDotRe) ==
    IF email = <<>> THEN FALSE
    ELSE LET es == Split(email, atSeparator)
    IN IF ~atSplitOk(es) THEN FALSE
    ELSE LET local == es[1]
             host == es[2]
    IN IF ~localLenOk(local) THEN FALSE
    ELSE LET hs == Split(host, dotSeparator)
    IN IF ~hostSplitOk(hs) THEN FALSE
    ELSE LET domain == hs[1]
             ext == hs[2]
    IN IF ~domainLenOk(domain) THEN FALSE
    ELSE IF ~extLenOk(ext) THEN FALSE
    ELSE LET punyLocal == ToASCII(local)
    IN IF punyLocal.err THEN FALSE
    ELSE LET punyHost == ToASCII(host)
    IN IF punyHost.err THEN FALSE
    ELSE IF ~matchOk(punyLocal.out, punyHost.out, userRe, hostRe, userDotRe)
         THEN FALSE
    ELSE TRUE

\* User.Validate (lines 40-50) run from its first to its last line.
ValidateWith(u, userRe, hostRe, userDotRe) ==
    IF ~isEmailWith(u.Email, userRe, hostRe, userDotRe) THEN ErrMalformedEntity
    ELSE IF ~passwordOk(u.Password) THEN ErrMalformedEntity
    ELSE nil

(***************************************************************************)
(* Inputs                                                                  *)
(***************************************************************************)

\* Every string of at most MaxShortLen characters over ShortAlphabet.
MaxShortLen == 5
\* How far past a length limit the padded inputs go.
LenSlack == 1
\* The goroutines that call Validate concurrently.
NumProcs == 2

Procs == 1..NumProcs

ShortAlphabet ==
    {Ord["a"], Ord["."], Ord["@"], Ord[" "], Ord["("], Ord["U+00E9"]}

ShortStrings == UNION {[1..k -> ShortAlphabet] : k \in 0..MaxShortLen}

\* One-byte and two-byte padding characters.
PadChars == {"a", "U+00E9"}

\* Lengths around the limit max, in characters of one byte and of two.
Lens(max) == {0, 1, max \div 2, (max \div 2) + 1} \cup ((max - 1)..(max + LenSlack))

Padded(max) == {Rep(c, n) : c \in PadChars, n \in Lens(max)}

Assemble(local, domain, ext) ==
    local \o <<atSeparator>> \o domain \o <<dotSeparator>> \o ext

\* Addresses whose parts have lengths around the three limits.
BoundaryEmails ==
    {Assemble(l, Str(<<"b">>), Str(<<"c", "o", "m">>)) : l \in Padded(maxLocalLen)}
    \cup {Assemble(Str(<<"a">>), d, e) :
              d \in Padded(maxDomainLen), e \in Padded(maxTLDLen)}

\* The addresses the specification names, and addresses with the ACE
\* prefix, with characters outside the local-part class, with white space.
user_example_com ==
    Str(<<"u","s","e","r","@","e","x","a","m","p","l","e",".","c","o","m">>)
a_b_c_sub_example_io ==
    Str(<<"a",".","b","+","c","@","s","u","b",".","e","x","a","m","p","l","e",
          ".","i","o">>)
a_b_c_example_io ==
    Str(<<"a",".","b","+","c","@","e","x","a","m","p","l","e",".","i","o">>)

SpecialLocals ==
    {Str(q) : q \in {<<"a">>, <<".", "a">>, <<"a", ".">>, <<"a", ".", ".", "b">>,
                     <<"a", ".", "b">>, <<"a", "(", "b">>, <<"a", ",", "b">>,
                     <<"a", "quote", "b">>, <<"a", " ", "b">>, <<"a", "tab">>,
                     <<"Z", "7", "!", "-">>, <<"U+00E9", "(">>,
                     <<"U+00E9", ".", ".", "a">>, <<"U+00E9", ".">>,
                     <<"x", "n", "-", "-">>, <<"x", "n", "-", "-", "a">>,
                     <<"x", "n", "-", "-", "a", "-">>,
                     <<"x", "n", "-", "-", "+">>,
                     <<"x", "n", "-", "-", "7">>}}

SpecialHosts ==
    {Str(q) : q \in {<<"b", ".", "c", "o", "m">>, <<"c", ".", "c", "o", "m">>,
                     <<"b", "c", "o", "m">>, <<"c", ".", "c", "o", "m", ".">>,
                     <<"b", "@", "c", ".", "c", "o", "m">>,
                     <<"b", ".", "c", "o", "m", "@", "c">>,
                     <<"s", "u", "b", ".", "b", ".", "c", "o", "m">>,
                     <<"b", "tab", ".", "c", "o", "m">>,
                     <<"(", ".", "c", "o", "m">>,
                     <<"x", "n", "-", "-", "+", ".", "c", "o", "m">>,
                     <<"x", "n", "-", "-", "a", "-", ".", "c", "o", "m">>,
                     <<"b", ".", "x", "n", "-", "-">>}}

SpecialEmails ==
    {user_example_com, a_b_c_sub_example_io, a_b_c_example_io}
    \cup {l \o <<atSeparator>> \o h : l \in SpecialLocals, h \in SpecialHosts}

Emails == ShortStrings \cup BoundaryEmails \cup SpecialEmails

\* Passwords of lengths around minPassLen.
Passwords == Padded(minPassLen)

\* Metadata is map[string]interface{}, as its set of key-value pairs: nil,
\* or a map with one key.
NoMetadata == {}
OneMetadata == {<<"name", "n">>}
Metadatas == {NoMetadata, OneMetadata}

MakeUser(email, password, metadata) ==
    [Email |-> email, Password |-> password, Metadata |-> metadata]

\* The zero value of User.
EmptyUser == MakeUser(<<>>, <<>>, NoMetadata)

\* Addresses that are combined with every password and metadata.
KeyEmails ==
    {<<>>, user_example_com, a_b_c_sub_example_io,
     Assemble(Rep("a", maxLocalLen), Str(<<"b">>), Str(<<"c", "o", "m">>)),
     Assemble(Rep("a", maxLocalLen + 1), Str(<<"b">>), Str(<<"c", "o", "m">>)),
     Str(<<"a", "@", "b", "c", "o", "m">>),
     Str(<<"U+00E9", "@", "U+00E9", ".", "U+00E9">>)}

Users ==
    {MakeUser(e, Rep("a", minPassLen), NoMetadata) : e \in Emails}
    \cup {MakeUser(e, pw, m) : e \in KeyEmails, pw \in Passwords, m \in Metadatas}

\* The users of the concurrent specification.
ConcUsers ==
    {EmptyUser,
     MakeUser(user_example_com, Rep("a", minPassLen), OneMetadata),
     MakeUser(user_example_com, Rep("a", minPassLen - 1), NoMetadata),
     MakeUser(Str(<<"a", ".", "@", "b", ".", "c", "o", "m">>),
              Rep("U+00E9", minPassLen \div 2), NoMetadata),
     MakeUser(Str(<<"x", "n", "-", "-", "+", "@", "b", ".", "c", "o", "m">>),
              Rep("a", minPassLen), NoMetadata)}

(***************************************************************************)
(* State                                                                   *)
(***************************************************************************)

VARIABLES
    userRegexp,     \* the package variables of lines 25-29
    hostRegexp,
    userDotRegexp,
    users,          \* users[p]: the User value goroutine p calls Validate on
    frame,          \* frame[p]: where goroutine p is in Validate and isEmail,
                    \* and the local variables of the two functions
    store,          \* the rows a UserRepository holds
    call,           \* call[p]: goroutine p's call of the UserRepository
    history         \* the repository calls that have returned, in order

validateVars == <<userRegexp, hostRegexp, userDotRegexp, users, frame>>
repoVars == <<store, call, history>>
vars == <<userRegexp, hostRegexp, userDotRegexp, users, frame, store, call, history>>

\* A goroutine that is in neither function.  last is what the caller keeps
\* of its previous call of Validate on the same value: the error returned,
\* "none" before the first call.
IdleFrame ==
    [pc |-> "idle", u |-> EmptyUser, local |-> <<>>, host |-> <<>>,
     punyLocal |-> <<>>, punyHost |-> <<>>, ok |-> FALSE, err |-> nil,
     last |-> "none"]

\* isEmail with the package variables as they are now.
isEmail(email) == isEmailWith(email, userRegexp, hostRegexp, userDotRegexp)

\* Validate with the package variables as they are now.
Validate(u) == ValidateWith(u, userRegexp, hostRegexp, userDotRegexp)

(***************************************************************************)
(* User.Validate and isEmail, statement by statement                       *)
(***************************************************************************)

\* return false from isEmail: control is back in Validate, line 41.
ReturnFalse(f) == [f EXCEPT !.pc = "returned", !.ok = FALSE]

\* u.Validate() is called: the receiver is a copy of the caller's value,
\* and line 41 calls isEmail(u.Email).
CallValidate(p) ==
    /\ frame[p].pc \in {"idle", "done"}
    /\ frame' = [frame EXCEPT ![p] =
           [IdleFrame EXCEPT !.pc = "isEmail",
                             !.u = users[p],
                             !.last = IF frame[p].pc = "done" THEN frame[p].err
                                      ELSE "none"]]
    /\ UNCHANGED <<userRegexp, hostRegexp, userDotRegexp, users>>
    /\ UNCHANGED repoVars

\* Lines 69-81: the empty address, the split at "@", the local part.
SplitAt(p) ==
    /\ frame[p].pc = "isEmail"
    /\ LET f == frame[p]
           email == f.u.Email
           es == Split(email, atSeparator)
       IN frame' = [frame EXCEPT ![p] =
              IF email = <<>> THEN ReturnFalse(f)
              ELSE IF ~atSplitOk(es) THEN ReturnFalse(f)
              ELSE IF ~localLenOk(es[1])
                   THEN ReturnFalse([f EXCEPT !.local = es[1], !.host = es[2]])
              ELSE [f EXCEPT !.pc = "splitHost", !.local = es[1], !.host = es[2]]]
    /\ UNCHANGED <<userRegexp, hostRegexp, userDotRegexp, users>>
    /\ UNCHANGED repoVars

\* Lines 83-94: the split of the host at ".", the domain, the extension.
SplitHost(p) ==
    /\ frame[p].pc = "splitHost"
    /\ LET f == frame[p]
           hs == Split(f.host, dotSeparator)
       IN frame' = [frame EXCEPT ![p] =
              IF ~hostSplitOk(hs) THEN ReturnFalse(f)
              ELSE IF ~domainLenOk(hs[1]) THEN ReturnFalse(f)
              ELSE IF ~extLenOk(hs[2]) THEN ReturnFalse(f)
              ELSE [f EXCEPT !.pc = "toASCII"]]
    /\ UNCHANGED <<userRegexp, hostRegexp, userDotRegexp, users>>
    /\ UNCHANGED repoVars

\* Lines 96-103: the two conversions.
ConvertToASCII(p) ==
    /\ frame[p].pc = "toASCII"
    /\ LET f == frame[p]
           punyLocal == ToASCII(f.local)
           punyHost == ToASCII(f.host)
       IN frame' = [frame EXCEPT ![p] =
              IF punyLocal.err THEN ReturnFalse(f)
              ELSE IF punyHost.err
                   THEN ReturnFalse([f EXCEPT !.punyLocal = punyLocal.out])
              ELSE [f EXCEPT !.pc = "match", !.punyLocal = punyLocal.out,
                             !.punyHost = punyHost.out]]
    /\ UNCHANGED <<userRegexp, hostRegexp, userDotRegexp, users>>
    /\ UNCHANGED repoVars


\* Lines 105-109 with the expression for the local part compiled again on
\* every call, into the package variable, from the pattern of the host.
MatchRecompiling(p) ==
    /\ frame[p].pc = "match"
    /\ userRegexp' = hostRegexp
    /\ LET f == frame[p]
       IN frame' = [frame EXCEPT ![p] =
              IF ~matchOk(f.punyLocal, f.punyHost,
                          hostRegexp, hostRegexp, userDotRegexp)
              THEN ReturnFalse(f)
              ELSE [f EXCEPT !.pc = "returned", !.ok = TRUE]]
    /\ UNCHANGED <<hostRegexp, userDotRegexp, users>>
    /\ UNCHANGED repoVars

\* Lines 105-109: the three expressions, read from the package variables.
Match(p) ==
    /\ frame[p].pc = "match"
    /\ LET f == frame[p]
       IN frame' = [frame EXCEPT ![p] =
              IF ~matchOk(f.punyLocal, f.punyHost,
                          userRegexp, hostRegexp, userDotRegexp)
              THEN ReturnFalse(f)
              ELSE [f EXCEPT !.pc = "returned", !.ok = TRUE]]
    /\ UNCHANGED <<userRegexp, hostRegexp, userDotRegexp, users>>
    /\ UNCHANGED repoVars

\* Lines 41-49: Validate with isEmail's result, then the password.
ReturnValidate(p) ==
    /\ frame[p].pc = "returned"
    /\ LET f == frame[p]
       IN frame' = [frame EXCEPT ![p] =
              IF ~f.ok THEN [f EXCEPT !.pc = "done", !.err = ErrMalformedEntity]
              ELSE IF ~passwordOk(f.u.Password)
                   THEN [f EXCEPT !.pc = "done", !.err = ErrMalformedEntity]
              ELSE [f EXCEPT !.pc = "done", !.err = nil]]
    /\ UNCHANGED <<userRegexp, hostRegexp, userDotRegexp, users>>
    /\ UNCHANGED repoVars

ValidateStep(p) ==
    \/ CallValidate(p)
    \/ SplitAt(p)
    \/ SplitHost(p)
    \/ ConvertToASCII(p)
    \/ Match(p)
    \/ ReturnValidate(p)

(***************************************************************************)
(* The UserRepository interface (lines 52-66).  The interface has no       *)
(* implementation in users.go; the operations below are the contract the   *)
(* specification gives (its section 4.3): one call of the storage          *)
(* collaborator is served at a time, and each call either fails with       *)
(* Internal, leaving the store as it is, or has the effect and the error   *)
(* of the contract.                                                        *)
(***************************************************************************)

ErrConflict == "ErrConflict"
ErrNotFound == "ErrNotFound"
ErrInternal == "ErrInternal"

\* The repository specification issues at most MaxCalls calls.
MaxCalls == 2

RepoEmails == {Str(<<"a", "@", "b", ".", "c", "o", "m">>), user_example_com}

\* The arguments of the calls: the users saved, the users that carry new
\* metadata, the new password.
SaveUsers == {MakeUser(e, Rep("a", minPassLen), NoMetadata) : e \in RepoEmails}
UpdateUsers == {MakeUser(e, Rep("a", minPassLen), OneMetadata) : e \in RepoEmails}
NewPassword == Rep("b", minPassLen)

IdleCall ==
    [pc |-> "idle", op |-> "none", user |-> EmptyUser, result |-> nil,
     found |-> EmptyUser]

\* The calls issued so far: those that have returned and those in flight.
Issued == Len(history) + Cardinality({p \in Procs : call[p].pc = "pending"})

\* The rows of the store with the given email.
Rows(email) == {i \in 1..Len(store) : store[i].Email = email}

\* Another goroutine has a Save for the same email in flight.
SaveInFlight(p, email) ==
    \E q \in Procs \ {p} :
        /\ call[q].pc = "pending" /\ call[q].op = "Save"
        /\ call[q].user.Email = email

\* What history keeps of a call that has returned.
Returned(p, result) ==
    [op |-> call[p].op, email |-> call[p].user.Email, result |-> result,
     proc |-> p, concurrent |-> SaveInFlight(p, call[p].user.Email)]

\* A goroutine calls an operation of the repository; the call is served
\* later, so calls of several goroutines are in flight together.
IssueCall(p, op, u) ==
    /\ call[p].pc \in {"idle", "returned"}
    /\ Issued < MaxCalls
    /\ call' = [call EXCEPT ![p] = [IdleCall EXCEPT !.pc = "pending", !.op = op,
                                                    !.user = u]]
    /\ UNCHANGED <<store, history>>
    /\ UNCHANGED validateVars


\* Save that stores the user without looking for the email.
ExecSaveUnchecked(p) ==
    /\ call[p].pc = "pending" /\ call[p].op = "Save"
    /\ \E failure \in BOOLEAN :
         LET u == call[p].user
             result == IF failure THEN ErrInternal ELSE nil
         IN /\ store' = IF result = nil THEN Append(store, u) ELSE store
            /\ call' = [call EXCEPT ![p].pc = "returned", ![p].result = result]
            /\ history' = Append(history, Returned(p, result))
    /\ UNCHANGED validateVars

\* Save(ctx, user): Conflict if the email already exists, Internal on a
\* storage failure, else the user is stored.
ExecSave(p) ==
    /\ call[p].pc = "pending" /\ call[p].op = "Save"
    /\ \E failure \in BOOLEAN :
         LET u == call[p].user
             result == IF failure THEN ErrInternal
                       ELSE IF Rows(u.Email) # {} THEN ErrConflict
                       ELSE nil
         IN /\ store' = IF result = nil THEN Append(store, u) ELSE store
            /\ call' = [call EXCEPT ![p].pc = "returned", ![p].result = result]
            /\ history' = Append(history, Returned(p, result))
    /\ UNCHANGED validateVars

\* UpdateUser(ctx, user): NotFound if no record matches the email, else
\* the metadata of the record is updated.
ExecUpdateUser(p) ==
    /\ call[p].pc = "pending" /\ call[p].op = "UpdateUser"
    /\ \E failure \in BOOLEAN :
         LET u == call[p].user
             result == IF failure THEN ErrInternal
                       ELSE IF Rows(u.Email) = {} THEN ErrNotFound
                       ELSE nil
         IN /\ store' = IF result = nil
                        THEN [i \in 1..Len(store) |->
                                 IF i \in Rows(u.Email)
                                 THEN [store[i] EXCEPT !.Metadata = u.Metadata]
                                 ELSE store[i]]
                        ELSE store
            /\ call' = [call EXCEPT ![p].pc = "returned", ![p].result = result]
            /\ history' = Append(history, Returned(p, result))
    /\ UNCHANGED validateVars

\* RetrieveByID(ctx, email): NotFound if absent, else the matching user.
ExecRetrieveByID(p) ==
    /\ call[p].pc = "pending" /\ call[p].op = "RetrieveByID"
    /\ \E failure \in BOOLEAN :
         LET email == call[p].user.Email
             result == IF failure THEN ErrInternal
                       ELSE IF Rows(email) = {} THEN ErrNotFound
                       ELSE nil
         IN /\ call' = [call EXCEPT ![p].pc = "returned", ![p].result = result,
                                    ![p].found = IF result = nil
                                                 THEN store[CHOOSE i \in Rows(email) : TRUE]
                                                 ELSE EmptyUser]
            /\ history' = Append(history, Returned(p, result))
    /\ UNCHANGED store
    /\ UNCHANGED validateVars

\* UpdatePassword(ctx, email, password): NotFound if absent, else the
\* password of the record is replaced.
ExecUpdatePassword(p) ==
    /\ call[p].pc = "pending" /\ call[p].op = "UpdatePassword"
    /\ \E failure \in BOOLEAN :
         LET u == call[p].user
             result == IF failure THEN ErrInternal
                       ELSE IF Rows(u.Email) = {} THEN ErrNotFound
                       ELSE nil
         IN /\ store' = IF result = nil
                        THEN [i \in 1..Len(store) |->
                                 IF i \in Rows(u.Email)
                                 THEN [store[i] EXCEPT !.Password = u.Password]
                                 ELSE store[i]]
                        ELSE store
            /\ call' = [call EXCEPT ![p].pc = "returned", ![p].result = result]
            /\ history' = Append(history, Returned(p, result))
    /\ UNCHANGED validateVars

\* The package variables after initialisation (regexp.MustCompile).
InitPackage ==
    /\ userRegexp = UserPattern
    /\ hostRegexp = HostPattern
    /\ userDotRegexp = UserDotPattern

InitRepoIdle ==
    /\ store = <<>>
    /\ call = [p \in Procs |-> IdleCall]
    /\ history = <<>>

\* One goroutine validates one user drawn from Users.
Init ==
    /\ InitPackage
    /\ \E u \in Users : users = [p \in Procs |-> IF p = 1 THEN u ELSE EmptyUser]
    /\ frame = [p \in Procs |-> IdleFrame]
    /\ InitRepoIdle

Next == ValidateStep(1)

Spec == Init /\ [][Next]_vars

\* Every goroutine validates a user drawn from ConcUsers, in any
\* interleaving of the statements.
InitConc ==
    /\ InitPackage
    /\ users \in [Procs -> ConcUsers]
    /\ frame = [p \in Procs |-> IdleFrame]
    /\ InitRepoIdle

NextConc == \E p \in Procs : ValidateStep(p)

SpecConc == InitConc /\ [][NextConc]_vars

\* The goroutines call the repository, which starts empty.
InitRepo ==
    /\ InitPackage
    /\ users = [p \in Procs |-> EmptyUser]
    /\ frame = [p \in Procs |-> IdleFrame]
    /\ InitRepoIdle

NextRepo ==
    \E p \in Procs :
        \/ \E u \in SaveUsers : IssueCall(p, "Save", u)
        \/ \E u \in UpdateUsers : IssueCall(p, "UpdateUser", u)
        \/ \E e \in RepoEmails :
               IssueCall(p, "RetrieveByID", MakeUser(e, <<>>, NoMetadata))
        \/ \E e \in RepoEmails :
               IssueCall(p, "UpdatePassword", MakeUser(e, NewPassword, NoMetadata))
        \/ ExecSave(p)
        \/ ExecUpdateUser(p)
        \/ ExecRetrieveByID(p)
        \/ ExecUpdatePassword(p)

SpecRepo == InitRepo /\ [][NextRepo]_vars

(***************************************************************************)
(* Properties of Validate and isEmail (specification Spec, goroutine 1)    *)
(***************************************************************************)

\* isEmail has returned to Validate; Validate has returned.
IsEmailReturned == frame[1].pc \in {"returned", "done"}
ValidateDone == frame[1].pc = "done"

\* The argument of the call, and what the two functions returned.
Email1 == frame[1].u.Email
Password1 == frame[1].u.Password
Ok1 == frame[1].ok
Err1 == frame[1].err

\* How often the character c occurs in s.
CountChar(s, c) == Cardinality({i \in 1..Len(s) : s[i] = c})

\* The parts of s before and after its first "@" (s has one).
FirstAt(s) == CHOOSE i \in 1..Len(s) : s[i] = 64 /\ \A j \in 1..(i - 1) : s[j] # 64
BeforeAt(s) == SubSeq(s, 1, FirstAt(s) - 1)
AfterAt(s) == SubSeq(s, FirstAt(s) + 1, Len(s))

\* The parts of s before and after its first "." (s has one).
FirstDot(s) == CHOOSE i \in 1..Len(s) : s[i] = 46 /\ \A j \in 1..(i - 1) : s[j] # 46
BeforeDot(s) == SubSeq(s, 1, FirstDot(s) - 1)
AfterDot(s) == SubSeq(s, FirstDot(s) + 1, Len(s))

\* Exactly one "@", and exactly one "." after it.
OneAt(s) == CountChar(s, 64) = 1
OneAtOneDot(s) == OneAt(s) /\ CountChar(AfterAt(s), 46) = 1

\* The number of bytes and of characters of s is within 1..max.
BytesWithin(s, max) == len(s) >= 1 /\ len(s) <= max
CharsWithin(s, max) == RuneCount(s) >= 1 /\ RuneCount(s) <= max

\* C1 as stated (lengths in characters): Validate returns MalformedEntity
\* exactly when isEmail(Email) is false or the Password has fewer than 8
\* characters, and nil otherwise.
C1_Original ==
    ValidateDone =>
        /\ Err1 \in {nil, ErrMalformedEntity}
        /\ Err1 = ErrMalformedEntity
               <=> (~isEmail(Email1) \/ RuneCount(Password1) < 8)

\* C1, amended: Validate returns MalformedEntity exactly when
\* isEmail(Email) is false or the Password has fewer than 8 bytes (len of
\* Go), and nil otherwise; with a valid email a password of 7 bytes fails
\* and one of 8 bytes succeeds.
C1_ValidateContract ==
    ValidateDone =>
        /\ Err1 \in {nil, ErrMalformedEntity}
        /\ Err1 = ErrMalformedEntity <=> (~isEmail(Email1) \/ len(Password1) < 8)
        /\ isEmail(Email1) /\ len(Password1) = 7 => Err1 = ErrMalformedEntity
        /\ isEmail(Email1) /\ len(Password1) = 8 => Err1 = nil

\* A valid email with a password of exactly 7 bytes was refused.
C1_Witness ==
    /\ ValidateDone
    /\ isEmail(Email1)
    /\ len(Password1) = 7
    /\ Err1 = ErrMalformedEntity

\* C2 as stated: isEmail returns true for user@example.com and for
\* a.b+c@sub.example.io.
C2_Original ==
    IsEmailReturned /\ Email1 \in {user_example_com, a_b_c_sub_example_io} => Ok1

\* C2, amended: isEmail returns true for user@example.com and for
\* a.b+c@example.io, and false for a.b+c@sub.example.io, whose host has
\* two dots.
C2_Examples ==
    IsEmailReturned =>
        /\ Email1 = user_example_com => Ok1
        /\ Email1 = a_b_c_example_io => Ok1
        /\ Email1 = a_b_c_sub_example_io => ~Ok1

\* isEmail has accepted user@example.com.
C2_Witness == IsEmailReturned /\ Email1 = user_example_com /\ Ok1

\* C3: for every input with exactly one "@" whose host has no "." or
\* more than one, isEmail returns false; every accepted address has
\* exactly one "." after its "@".
C3_HostTwoLabels ==
    IsEmailReturned =>
        /\ OneAt(Email1) /\ CountChar(AfterAt(Email1), 46) # 1 => ~Ok1
        /\ Ok1 => OneAtOneDot(Email1)

\* isEmail has refused an address whose host has two dots and whose
\* local part, labels and characters are all acceptable.
C3_Witness ==
    /\ IsEmailReturned
    /\ ~Ok1
    /\ OneAt(Email1)
    /\ CountChar(AfterAt(Email1), 46) = 2
    /\ MatchUser(BeforeAt(Email1))
    /\ MatchHost(AfterAt(Email1))
    /\ ~MatchUserDot(BeforeAt(Email1))

\* C8: for every input that does not contain exactly one "@", isEmail
\* returns false.
C8_ExactlyOneAt == IsEmailReturned /\ CountChar(Email1, 64) # 1 => ~Ok1

\* isEmail has refused an address with two "@" whose first two parts
\* make an acceptable address.
C8_Witness ==
    /\ IsEmailReturned
    /\ ~Ok1
    /\ CountChar(Email1, 64) = 2
    /\ isEmail(SubSeq(Email1, 1, SepAt(Email1, 64, 2) - 1))

\* The conditions of isEmail on an address s with one "@" and one "."
\* after it, each stated on its own.  The lengths are in bytes.
LocalOf(s) == BeforeAt(s)
HostOf(s) == AfterAt(s)
DomainOf(s) == BeforeDot(AfterAt(s))
ExtOf(s) == AfterDot(AfterAt(s))
PunyLocalOf(s) == ToASCII(BeforeAt(s)).out
PunyHostOf(s) == ToASCII(AfterAt(s)).out

\* letters, digits and ! # $ % & ' * + / = ? ^ _ (backquote) { | } ~ . -
AllowedLocalChars ==
    (65..90) \cup (97..122) \cup (48..57)
    \cup {33, 35, 36, 37, 38, 39, 42, 43, 47, 61, 63, 94, 95, 96, 123, 124,
          125, 126, 46, 45}

\* White space as the expressions' \s has it: tab, newline, form feed,
\* carriage return, space.
WhiteSpace == {9, 10, 12, 13, 32}

NoWhiteSpace(s) == \A i \in 1..Len(s) : s[i] \notin WhiteSpace

\* s begins with ".", ends with ".", or has two "." in a row.
DotBad(s) ==
    /\ Len(s) >= 1
    /\ \/ s[1] = 46
       \/ s[Len(s)] = 46
       \/ \E i \in 1..(Len(s) - 1) : s[i] = 46 /\ s[i + 1] = 46

CondLocalLen(s) == BytesWithin(LocalOf(s), 64)
CondDomainLen(s) == BytesWithin(DomainOf(s), 255)
CondExtLen(s) == BytesWithin(ExtOf(s), 24)
CondConversion(s) == ~ToASCII(LocalOf(s)).err /\ ~ToASCII(HostOf(s)).err
CondDots(s) == ~DotBad(PunyLocalOf(s))
\* One or more characters, all of them allowed.
OnlyAllowed(t) == Len(t) >= 1 /\ \A i \in 1..Len(t) : t[i] \in AllowedLocalChars
CondChars(s) == OnlyAllowed(PunyLocalOf(s))
\* Characters that are not white space, a ".", characters that are not
\* white space.
HostShape(t) == NoWhiteSpace(t) /\ \E i \in 2..(Len(t) - 1) : t[i] = 46
CondHost(s) == HostShape(PunyHostOf(s))

\* C4 as stated (lengths in characters): an address that satisfies every
\* other condition is accepted iff its local part has 1..64 characters.
C4_Original ==
    IsEmailReturned /\ OneAtOneDot(Email1)
    /\ CondDomainLen(Email1) /\ CondExtLen(Email1) /\ CondConversion(Email1)
    /\ CondDots(Email1) /\ CondChars(Email1) /\ CondHost(Email1)
        => (Ok1 <=> CharsWithin(LocalOf(Email1), 64))

\* C4, amended: the local-part limit of isEmail is 64 bytes of UTF-8: an
\* address that satisfies every other condition is accepted iff its local
\* part has 1..64 bytes (exactly 64 passes), and every address with one
\* "@" whose local part is empty or longer than 64 bytes is rejected.
C4_LocalLimit ==
    IsEmailReturned =>
        /\ OneAtOneDot(Email1)
           /\ CondDomainLen(Email1) /\ CondExtLen(Email1) /\ CondConversion(Email1)
           /\ CondDots(Email1) /\ CondChars(Email1) /\ CondHost(Email1)
               => (Ok1 <=> BytesWithin(LocalOf(Email1), 64))
        /\ OneAt(Email1) /\ ~BytesWithin(LocalOf(Email1), 64) => ~Ok1

\* isEmail has accepted an address whose local part has exactly 64 bytes.
C4_Witness == IsEmailReturned /\ Ok1 /\ len(LocalOf(Email1)) = 64

\* C5: if the converted local part begins with ".", ends with "." or has
\* two "." in a row, isEmail returns false (so do .a@b.com, a.@b.com and
\* a..b@c.com); a local part whose dots are single and interior is not
\* rejected by this rule: with every other condition satisfied the address
\* is accepted iff the rule finds nothing.
C5_LocalDots ==
    IsEmailReturned =>
        /\ OneAt(Email1) /\ ~ToASCII(LocalOf(Email1)).err
           /\ DotBad(PunyLocalOf(Email1)) => ~Ok1
        /\ OneAt(Email1) /\ DotBad(LocalOf(Email1)) => ~Ok1
        /\ Email1 \in {Str(<<".", "a", "@", "b", ".", "c", "o", "m">>),
                       Str(<<"a", ".", "@", "b", ".", "c", "o", "m">>),
                       Str(<<"a", ".", ".", "b", "@", "c", ".", "c", "o", "m">>)}
               => ~Ok1
        /\ Email1 = Str(<<"a", ".", "b", "@", "c", ".", "c", "o", "m">>) => Ok1
        /\ OneAtOneDot(Email1)
           /\ CondLocalLen(Email1) /\ CondDomainLen(Email1) /\ CondExtLen(Email1)
           /\ CondConversion(Email1) /\ CondChars(Email1) /\ CondHost(Email1)
               => (Ok1 <=> ~DotBad(PunyLocalOf(Email1)))

\* isEmail has refused an address only because its local part ends with
\* a ".".
C5_Witness ==
    /\ IsEmailReturned
    /\ ~Ok1
    /\ OneAtOneDot(Email1)
    /\ CondLocalLen(Email1) /\ CondDomainLen(Email1) /\ CondExtLen(Email1)
    /\ CondConversion(Email1) /\ CondChars(Email1) /\ CondHost(Email1)
    /\ LET t == PunyLocalOf(Email1) IN t[Len(t)] = 46 /\ t[1] # 46

\* C6 as stated (lengths in characters): an address that satisfies every
\* other condition is accepted iff its domain has 1..255 characters and
\* its top-level label 1..24 characters.
C6_Original ==
    IsEmailReturned /\ OneAtOneDot(Email1)
    /\ CondLocalLen(Email1) /\ CondConversion(Email1)
    /\ CondDots(Email1) /\ CondChars(Email1) /\ CondHost(Email1)
        => (Ok1 <=> CharsWithin(DomainOf(Email1), 255)
                    /\ CharsWithin(ExtOf(Email1), 24))

\* C6, amended: the host label limits are in bytes of UTF-8: an address
\* that satisfies every other condition is accepted iff its domain has
\* 1..255 bytes and its top-level label 1..24 bytes (255 and 24 pass, 256
\* and 25 fail), and every address with one "@" and one "." after it whose
\* domain or top-level label is empty or too long is rejected.
C6_HostLimits ==
    IsEmailReturned =>
        /\ OneAtOneDot(Email1)
           /\ CondLocalLen(Email1) /\ CondConversion(Email1)
           /\ CondDots(Email1) /\ CondChars(Email1) /\ CondHost(Email1)
               => (Ok1 <=> BytesWithin(DomainOf(Email1), 255)
                           /\ BytesWithin(ExtOf(Email1), 24))
        /\ OneAtOneDot(Email1)
           /\ (~BytesWithin(DomainOf(Email1), 255) \/ ~BytesWithin(ExtOf(Email1), 24))
               => ~Ok1

\* isEmail has accepted an address whose domain has exactly 255 bytes and
\* whose top-level label has exactly 24.
C6_Witness ==
    /\ IsEmailReturned
    /\ Ok1
    /\ len(DomainOf(Email1)) = 255
    /\ len(ExtOf(Email1)) = 24

C10_Pure ==
    /\ [](\A p \in Procs :
            /\ frame[p].pc \in {"returned", "done"}
                 => frame[p].ok = isEmailWith(users[p].Email, UserPattern,
                                              HostPattern, UserDotPattern)
            /\ frame[p].pc = "done"
                 => /\ frame[p].err = ValidateWith(users[p], UserPattern,
                                                   HostPattern, UserDotPattern)
                    /\ frame[p].last # "none" => frame[p].err = frame[p].last
            /\ frame[p].pc # "idle" => frame[p].u = users[p])
    /\ [][UNCHANGED <<userRegexp, hostRegexp, userDotRegexp, users>>]_vars

\* A goroutine has returned from its second call on a valid user while
\* another goroutine, validating the same address, is about to read the
\* expressions.
C10_Witness ==
    \E p \in Procs, q \in Procs :
        /\ p # q
        /\ frame[p].pc = "done"
        /\ frame[p].last = nil
        /\ frame[p].err = nil
        /\ frame[q].pc = "match"
        /\ users[q].Email = users[p].Email

(***************************************************************************)
(* The repository contract (specification SpecRepo)                        *)
(***************************************************************************)

\* C9: from an empty store, and storage failures apart, a Save for an
\* email succeeds iff no earlier Save for that email has succeeded and
\* fails with Conflict otherwise, so the store never holds two records
\* with the same email; Save called twice with the same email succeeds
\* first and fails with Conflict second, also when the two calls were in
\* flight together.
C9_SaveConflict ==
    /\ \A i \in 1..Len(history) :
         history[i].op = "Save" /\ history[i].result # ErrInternal =>
            /\ history[i].result \in {nil, ErrConflict}
            /\ history[i].result = nil
                 <=> ~\E j \in 1..(i - 1) :
                        /\ history[j].op = "Save"
                        /\ history[j].email = history[i].email
                        /\ history[j].result = nil
    /\ \A i \in 1..Len(store), j \in 1..Len(store) :
         store[i].Email = store[j].Email => i = j

\* Two goroutines had a Save for the same email in flight together: the
\* first one served succeeded, the second failed with Conflict.
C9_Witness ==
    /\ Len(history) >= 2
    /\ history[1].op = "Save" /\ history[2].op = "Save"
    /\ history[1].email = history[2].email
    /\ history[1].proc # history[2].proc
    /\ history[1].concurrent
    /\ history[1].result = nil
    /\ history[2].result = ErrConflict

=============================================================================
